---- MODULE Spec2Model ----
(***************************************************************************)
(* Availability scheduling of gopsy-backend: the schedule validator        *)
(* (internal/domain/availability.go), the usecase that runs it             *)
(* (internal/usecase/availability_usecase.go) and the transactional        *)
(* replace of a psikolog's weekly schedule                                 *)
(* (internal/repository/user_repository.go) against a PostgreSQL store     *)
(* running gorm transactions at the default READ COMMITTED isolation.      *)
(*                                                                         *)
(* Strings that the code parses are sequences of one-character strings,    *)
(* so that time.Parse is modelled by what it does to the characters.       *)
(***************************************************************************)
EXTENDS Integers, Sequences, FiniteSets, TLC

(***************************************************************************)
(* Bounds of the model.                                                    *)
(***************************************************************************)
\* longest slot list of a payload drawn for the validator
MaxSlots == 2
\* number of requests served in one behaviour, each by a handler of its own
NumRequests == 2

(***************************************************************************)
(* Program constants.                                                      *)
(***************************************************************************)
\* minDuration := 30 * time.Minute
MinDurationMinutes == 30
\* http.StatusBadRequest
StatusBadRequest == 400
\* http.StatusInternalServerError
StatusInternalServerError == 500

(***************************************************************************)
(* Character strings.                                                      *)
(***************************************************************************)
DigitChars == <<"0", "1", "2", "3", "4", "5", "6", "7", "8", "9">>

\* isDigit(s, i): i is a 0-based index into s
isDigit(s, i) == i + 1 <= Len(s) /\ \E d \in 1..10 : DigitChars[d] = s[i + 1]

\* int(s[i] - '0')
DigitVal(c) == (CHOOSE d \in 1..10 : DigitChars[d] = c) - 1

\* s[n:]
Drop(s, n) == SubSeq(s, n + 1, Len(s))

\* getnum of package time: (ok, number, rest)
getnum(s, fixed) ==
  IF ~isDigit(s, 0) THEN [ok |-> FALSE, n |-> 0, rest |-> s]
  ELSE IF ~isDigit(s, 1)
       THEN IF fixed THEN [ok |-> FALSE, n |-> 0, rest |-> s]
            ELSE [ok |-> TRUE, n |-> DigitVal(s[1]), rest |-> Drop(s, 1)]
       ELSE [ok |-> TRUE, n |-> DigitVal(s[1]) * 10 + DigitVal(s[2]), rest |-> Drop(s, 2)]

\* the literal ":" between two fields of the layout
skipColon(s) ==
  IF Len(s) >= 1 /\ s[1] = ":" THEN [ok |-> TRUE, rest |-> Drop(s, 1)]
  ELSE [ok |-> FALSE, rest |-> s]

NoTime == [ok |-> FALSE, sec |-> 0]

\* time.Parse("15:04:05", s): the hour takes one or two digits, minute and
\* second exactly two; the value is the number of seconds since midnight.
\* (Strings with a fractional second are outside the inputs drawn here.)
ParseTime(s) ==
  LET h  == getnum(s, FALSE)
      c1 == skipColon(h.rest)
      m  == getnum(c1.rest, TRUE)
      c2 == skipColon(m.rest)
      x  == getnum(c2.rest, TRUE)
  IN  IF ~h.ok \/ h.n >= 24 THEN NoTime
      ELSE IF ~c1.ok THEN NoTime
      ELSE IF ~m.ok \/ m.n >= 60 THEN NoTime
      ELSE IF ~c2.ok THEN NoTime
      ELSE IF ~x.ok \/ x.n >= 60 THEN NoTime
      ELSE IF Len(x.rest) # 0 THEN NoTime
      ELSE [ok |-> TRUE, sec |-> h.n * 3600 + m.n * 60 + x.n]

(***************************************************************************)
(* Errors.                                                                 *)
(***************************************************************************)
NoCause == <<>>

\* a nil error
Nil == [HTTPStatus |-> 0, Message |-> <<>>, Err |-> NoCause]

NewDomainError(status, message) ==
  [HTTPStatus |-> status, Message |-> message, Err |-> NoCause]

NewDomainErrorWithCause(status, message, err) ==
  [HTTPStatus |-> status, Message |-> message, Err |-> err]

MsgInvalidStart == <<"Invalid start time format">>
MsgInvalidEnd == <<"Invalid end time format">>
MsgStartBeforeEnd == <<"Start time must be before end time">>
MsgMinDuration == <<"Minimum consultation duration is 30 minutes">>
MsgOverlapPrefix == "Time overlapping detected for"

(***************************************************************************)
(* The validator.                                                          *)
(***************************************************************************)
\* a comparison that lets start = end through
BeforeOrEqual(t, u) == t.sec <= u.sec

\* t.Before(u) on two parsed times of day
Before(t, u) == t.sec < u.sec

\* a duration check that also refuses exactly 30 minutes
ShorterThanMinOrEqual(startTime, endTime) ==
  endTime.sec - startTime.sec <= MinDurationMinutes * 60

\* a duration check that compares seconds with a count of minutes
ShorterThanMinInMinutes(startTime, endTime) ==
  endTime.sec - startTime.sec < MinDurationMinutes

\* endTime.Sub(startTime) < minDuration
ShorterThanMin(startTime, endTime) ==
  endTime.sec - startTime.sec < MinDurationMinutes * 60

\* SlotPayload.Validate
SlotValidate(s) ==
  LET startTime == ParseTime(s.WaktuMulai)
      endTime   == ParseTime(s.WaktuSelesai)
  IN  IF ~startTime.ok THEN NewDomainError(StatusBadRequest, MsgInvalidStart)
      ELSE IF ~endTime.ok THEN NewDomainError(StatusBadRequest, MsgInvalidEnd)
      ELSE IF ~Before(startTime, endTime)
           THEN NewDomainError(StatusBadRequest, MsgStartBeforeEnd)
      ELSE IF ShorterThanMin(startTime, endTime)
           THEN NewDomainError(StatusBadRequest, MsgMinDuration)
      ELSE Nil

\* an overlap test that counts two slots that touch as overlapping
isOverlappingClosed(slot1, slot2) ==
  LET start1 == ParseTime(slot1.WaktuMulai)
      end1   == ParseTime(slot1.WaktuSelesai)
      start2 == ParseTime(slot2.WaktuMulai)
      end2   == ParseTime(slot2.WaktuSelesai)
  IN  BeforeOrEqual(start1, end2) /\ BeforeOrEqual(start2, end1)

\* an overlap test written for a list sorted by start time: the second slot
\* starts inside the first
isOverlappingSorted(slot1, slot2) ==
  LET start1 == ParseTime(slot1.WaktuMulai)
      end1   == ParseTime(slot1.WaktuSelesai)
      start2 == ParseTime(slot2.WaktuMulai)
  IN  ~Before(start2, start1) /\ Before(start2, end1)

\* isOverlapping: a time that does not parse is the zero time
isOverlapping(slot1, slot2) ==
  LET start1 == ParseTime(slot1.WaktuMulai)
      end1   == ParseTime(slot1.WaktuSelesai)
      start2 == ParseTime(slot2.WaktuMulai)
      end2   == ParseTime(slot2.WaktuSelesai)
  IN  Before(start1, end2) /\ Before(start2, end1)

\* the pairs i < j in the order the two loops of validateNoOverlapping visit them
PairBefore(a, b) == a[1] < b[1] \/ (a[1] = b[1] /\ a[2] < b[2])

\* validateNoOverlapping: <<>> when no pair overlaps, otherwise the message
\* naming the first overlapping pair
validateNoOverlapping(slots) ==
  LET bad == {p \in (1..Len(slots)) \X (1..Len(slots)) :
                p[1] < p[2] /\ isOverlapping(slots[p[1]], slots[p[2]])}
  IN  IF bad = {} THEN <<>>
      ELSE LET f == CHOOSE p \in bad : \A q \in bad : q = p \/ PairBefore(p, q)
           IN  <<"slots", slots[f[1]].WaktuMulai, slots[f[1]].WaktuSelesai,
                 "and", slots[f[2]].WaktuMulai, slots[f[2]].WaktuSelesai,
                 "are overlapping">>

\* a grouping that puts every slot in every day's group
DaySlotsAnyDay(slots, day) == slots

\* the slots of one day, in list order: daySlots[day]
RECURSIVE DaySlots(_, _)
DaySlots(slots, day) ==
  IF slots = <<>> THEN <<>>
  ELSE IF slots[1].Hari = day THEN <<slots[1]>> \o DaySlots(Tail(slots), day)
       ELSE DaySlots(Tail(slots), day)

\* a loop that looks at the first slot of the list only
FirstInvalidFirstOnly(slots) ==
  IF Len(slots) > 0 /\ SlotValidate(slots[1]) # Nil THEN 1 ELSE 0

\* index of the first slot that fails SlotPayload.Validate, 0 when none does
FirstInvalid(slots) ==
  IF \E i \in 1..Len(slots) : SlotValidate(slots[i]) # Nil
  THEN CHOOSE i \in 1..Len(slots) :
         /\ SlotValidate(slots[i]) # Nil
         /\ \A j \in 1..(i - 1) : SlotValidate(slots[j]) = Nil
  ELSE 0

\* SetAvailabilityPayload.Validate: the set of errors the call can return.
\* The first loop returns the first slot error; the second ranges over a Go
\* map, whose iteration order is not fixed, so with overlaps on several days
\* any of those days can be the one reported.
Validate(p) ==
  LET slots == p.Slots
      k     == FirstInvalid(slots)
      days  == {slots[i].Hari : i \in 1..Len(slots)}
      bad   == {d \in days : validateNoOverlapping(DaySlots(slots, d)) # <<>>}
  IN  IF k # 0 THEN {SlotValidate(slots[k])}
      ELSE IF bad # {}
           THEN {NewDomainError(StatusBadRequest,
                   <<MsgOverlapPrefix, d>> \o validateNoOverlapping(DaySlots(slots, d))) :
                 d \in bad}
      ELSE {Nil}

(***************************************************************************)
(* Inputs.                                                                 *)
(***************************************************************************)
T0900 == <<"0", "9", ":", "0", "0", ":", "0", "0">>
T0920 == <<"0", "9", ":", "2", "0", ":", "0", "0">>
T0930 == <<"0", "9", ":", "3", "0", ":", "0", "0">>
T1000 == <<"1", "0", ":", "0", "0", ":", "0", "0">>
T1100 == <<"1", "1", ":", "0", "0", ":", "0", "0">>
\* no seconds field, which time.Parse rejects
THourMinute == <<"0", "9", ":", "0", "0">>

\* oneof=Senin Selasa Rabu Kamis Jumat Sabtu Minggu
CanonicalDays == <<"Senin", "Selasa", "Rabu", "Kamis", "Jumat", "Sabtu", "Minggu">>

ValidatorTimes == {T0900, T0920, T0930, T1000, THourMinute}
ValidatorDays == {"Senin", "Rabu"}

SlotPayload(hari, mulai, selesai) ==
  [Hari |-> hari, WaktuMulai |-> mulai, WaktuSelesai |-> selesai]

ValidatorSlots ==
  {SlotPayload(d, a, b) : d \in ValidatorDays, a \in ValidatorTimes, b \in ValidatorTimes}

SeqsUpTo(S, n) == UNION {[1..k -> S] : k \in 0..n}

SetAvailabilityPayload(slots) == [Slots |-> slots]

ValidatorPayloads == {SetAvailabilityPayload(l) : l \in SeqsUpTo(ValidatorSlots, MaxSlots)}

(***************************************************************************)
(* Requests made of the usecase.                                           *)
(***************************************************************************)
\* psikolog ids: the code only compares them for equality, and no property
\* speaks of more than two owners
Owners == {1, 2}

\* the handlers: the HTTP server runs every request in its own goroutine;
\* they are numbered in the order their calls arrive
Procs == 1..NumRequests

\* one valid slot
PayloadA == SetAvailabilityPayload(<<SlotPayload("Senin", T0900, T1000)>>)
\* two valid slots on two days; the first intersects the slot of PayloadA
PayloadB ==
  SetAvailabilityPayload(<<SlotPayload("Senin", T0930, T1100), SlotPayload("Rabu", T0900, T1000)>>)
\* two slots of the same day that overlap
PayloadOverlap ==
  SetAvailabilityPayload(<<SlotPayload("Senin", T0900, T1000), SlotPayload("Senin", T0930, T1100)>>)
\* no slot at all
PayloadEmpty == SetAvailabilityPayload(<<>>)
\* one slot with well-formed times on a day that is not one of the seven labels
PayloadMonday == SetAvailabilityPayload(<<SlotPayload("Monday", T0900, T1000)>>)

RequestPayloads == {PayloadA, PayloadB, PayloadOverlap, PayloadEmpty}

\* the days asked of GetAvailabilityByDay: two labels of the set, and one
\* that differs from a label by the case of a letter
RequestDays == {"Senin", "Rabu", "senin"}

(***************************************************************************)
(* State.                                                                  *)
(***************************************************************************)
VARIABLES
  vpayload,   \* the payload handed to the validator
  vpc,        \* "ready" before SetAvailabilityPayload.Validate ran, "done" after
  verr,       \* the error SetAvailabilityPayload.Validate returned
  serrs,      \* the error SlotPayload.Validate returns for each slot of vpayload
  table,      \* the committed rows of waktu_konsultasi
  nextID,     \* the next value of the bigserial id sequence
  pc,         \* where each handler is in its call
  req,        \* the call of each handler: operation, psikologID, payload
  newSlots,   \* the []WaktuKonsultasi each handler passes to ReplaceAll
  replaceCalls, \* how many times each handler's call invoked ReplaceAll
  queries,    \* how many SELECTs each handler's call sent to the repository
  snap,       \* the ids the handler's DELETE statement saw in its snapshot
  del,        \* the ids of the rows the handler's open transaction deleted
  ins,        \* the rows the handler's open transaction inserted
  ret,        \* the error each handler's call returns
  got,        \* the slots each handler's GetAvailability returns, and the
              \* handlers that were inside ReplaceAll's caller when it read
  pre,        \* the owner's committed rows when the handler's call began
  alone,      \* no other ReplaceAll for the same owner overlapped this call so far
  users,      \* the committed rows of users
  nextUserID, \* the next value of the id sequence of users
  upc,        \* where each handler is in its call of the user usecase
  ureq,       \* the call: operation, payload as the usecase holds it, role
  found,      \* what GetByEmail returned to the call: user and error
  newUser,    \* the *domain.User registerUser hands to Create
  createCalls, \* how many times the call invoked Create
  ures,       \* what the call returns: user, login response, error
  hreq,       \* the HTTP request each handler received: context value and body
  resp        \* the HTTP response each handler wrote: status and message

vvars == <<vpayload, vpc, verr, serrs>>

uvars == <<users, nextUserID, upc, ureq, found, newUser, createCalls, ures>>

hvars == <<hreq, resp>>

dbvars == <<table, nextID, pc, req, newSlots, replaceCalls, queries, snap, del, ins,
            ret, got, pre, alone>>

vars == <<vvars, dbvars, uvars, hvars>>

NoDay == ""

NoReq == [op |-> "none", psikologID |-> 0, payload |-> PayloadEmpty, day |-> NoDay]
NoResult == [slots |-> <<>>, during |-> {}]

\* the rows psikolog 1 has after one SetAvailability(1, PayloadA)
SeededRows ==
  {[ID |-> 1, PsikologID |-> 1, Hari |-> "Senin", WaktuMulai |-> T0900, WaktuSelesai |-> T1000]}

\* no handler has started; the store holds the rows given
InitDb(rows) ==
  /\ table = rows
  /\ nextID = Cardinality(rows) + 1
  /\ pc = [p \in Procs |-> "idle"]
  /\ req = [p \in Procs |-> NoReq]
  /\ newSlots = [p \in Procs |-> <<>>]
  /\ replaceCalls = [p \in Procs |-> 0]
  /\ queries = [p \in Procs |-> 0]
  /\ snap = [p \in Procs |-> {}]
  /\ del = [p \in Procs |-> {}]
  /\ ins = [p \in Procs |-> {}]
  /\ ret = [p \in Procs |-> Nil]
  /\ got = [p \in Procs |-> NoResult]
  /\ pre = [p \in Procs |-> {}]
  /\ alone = [p \in Procs |-> TRUE]

(***************************************************************************)
(* Users: the values of internal/domain's user declarations.               *)
(***************************************************************************)
\* a nil error
NoError == <<>>
ErrUserNotFound == <<"user", "not", "found">>
ErrEmailAlreadyExists == <<"email", "already", "exists">>
ErrInvalidCredentials == <<"invalid", "credentials">>
\* the error of a query or an insert that the database could not run
ErrDatabase == <<"database", "error">>
\* pgx's text for SQLSTATE 23505
ErrUniqueViolation ==
  <<"ERROR:", "duplicate", "key", "value", "violates", "unique", "constraint", "(", "SQLSTATE",
    "23505", ")">>

\* a nil *domain.User, a nil *domain.LoginResponse
NoUser == [ID |-> 0, Username |-> <<>>, Email |-> <<>>, Password |-> <<>>, Role |-> ""]
NoResponse == [Token |-> <<>>, User |-> NoUser]

NoUserReq == [op |-> "none", Username |-> <<>>, Email |-> <<>>, Password |-> <<>>, role |-> ""]
NoFound == [user |-> NoUser, err |-> NoError]
NoUserResult == [user |-> NoUser, response |-> NoResponse, err |-> NoError]

\* no handler has started; the users table holds the rows given
InitUsers(rows) ==
  /\ users = rows
  /\ nextUserID = Cardinality(rows) + 1
  /\ upc = [p \in Procs |-> "idle"]
  /\ ureq = [p \in Procs |-> NoUserReq]
  /\ found = [p \in Procs |-> NoFound]
  /\ newUser = [p \in Procs |-> NoUser]
  /\ createCalls = [p \in Procs |-> 0]
  /\ ures = [p \in Procs |-> NoUserResult]

(***************************************************************************)
(* HTTP requests and responses of AvailabilityHandler.                     *)
(***************************************************************************)
\* http.StatusOK
StatusOK == 200
\* http.StatusUnauthorized
StatusUnauthorized == 401

\* the value c.Get("userID") finds: none, a uint, or a value of another type
CtxAbsent == [exists |-> FALSE, type |-> "", value |-> 0]
CtxUint(v) == [exists |-> TRUE, type |-> "uint", value |-> v]
CtxFloat(v) == [exists |-> TRUE, type |-> "float64", value |-> v]

\* a request body: JSON that parses or not, with or without the key slots,
\* and with any other key, such as psikolog_id (0: the key is not there)
Body(wellFormed, hasSlots, slots, psikologID) ==
  [wellFormed |-> wellFormed, hasSlots |-> hasSlots, Slots |-> slots,
   psikolog_id |-> psikologID]

NoHTTPReq == [received |-> FALSE, ctx |-> CtxAbsent, body |-> Body(FALSE, FALSE, <<>>, 0)]
NoResp == [status |-> 0, message |-> <<>>]

InitHandlers ==
  /\ hreq = [p \in Procs |-> NoHTTPReq]
  /\ resp = [p \in Procs |-> NoResp]

(***************************************************************************)
(* The validator on its own: every payload of the pool is validated.       *)
(***************************************************************************)
InitValidator ==
  /\ vpayload \in ValidatorPayloads
  /\ vpc = "ready"
  /\ verr = Nil
  /\ serrs = <<>>
  /\ InitDb({})
  /\ InitUsers({})
  /\ InitHandlers

\* p.Validate() for the payload, slot.Validate() for each of its slots
ValidateCall ==
  /\ vpc = "ready"
  /\ vpc' = "done"
  /\ verr' \in Validate(vpayload)
  /\ serrs' = [i \in 1..Len(vpayload.Slots) |-> SlotValidate(vpayload.Slots[i])]
  /\ UNCHANGED <<vpayload, dbvars, uvars, hvars>>

NextValidator == ValidateCall

SpecValidator == InitValidator /\ [][NextValidator]_vars

(***************************************************************************)
(* The validator on lists drawn from fewer times, for what is said of a    *)
(* list as a whole: slots that touch, and the order of the slots.          *)
(***************************************************************************)
OrderSlots ==
  {SlotPayload(d, a, b) : d \in ValidatorDays, a, b \in {T0900, T0930, T1000, THourMinute}}

OrderPayloads == {SetAvailabilityPayload(l) : l \in SeqsUpTo(OrderSlots, MaxSlots)}

InitOrder ==
  /\ vpayload \in OrderPayloads
  /\ vpc = "ready"
  /\ verr = Nil
  /\ serrs = <<>>
  /\ InitDb({})
  /\ InitUsers({})
  /\ InitHandlers

SpecOrder == InitOrder /\ [][NextValidator]_vars

(***************************************************************************)
(* The store: PostgreSQL at READ COMMITTED, the isolation level of a gorm   *)
(* Transaction opened without options.  A statement sees the rows committed *)
(* when it starts and the rows of its own transaction; a DELETE waits for   *)
(* the transaction that holds a row it wants, and then skips the row if     *)
(* that transaction committed its deletion.                                 *)
(***************************************************************************)
\* the rows of one psikolog among a set of rows
RowsOf(rows, psikologID) == {r \in rows : r.PsikologID = psikologID}

IDs(rows) == {r.ID : r \in rows}

\* a transaction is open
InTx(p) == pc[p] \in {"deleting", "deleted", "inserted"}

\* a DELETE without its WHERE clause
MatchesAny(row, psikologID) == TRUE

\* Where("psikolog_id = ?", psikologID)
MatchesOwner(row, psikologID) == row.PsikologID = psikologID

\* a DELETE that also waits for the statements that have only taken their
\* snapshot of the rows it wants
CanFinishDeleteAfterSnapshots(p) ==
  \A q \in Procs \ {p} : InTx(q) => snap[p] \cap (del[q] \cup snap[q]) = {}

\* the DELETE of p need not wait: no row of its snapshot is held by another
\* open transaction
CanFinishDelete(p) == \A q \in Procs \ {p} : InTx(q) => snap[p] \cap del[q] = {}

\* a DELETE that is applied to the committed rows at once
TableAfterDeleteNoTx(p) == {r \in table : r.ID \notin snap[p]}

\* the committed rows while the DELETE of an open transaction is pending:
\* other sessions go on seeing the rows
TableAfterDelete(p) == table

\* a rollback that leaves the transaction's deletions in place
TableAfterRollbackKeepDelete(p) == {r \in table : r.ID \notin del[p]}

\* a rollback that leaves the transaction's insertions in place
TableAfterRollbackKeepInsert(p) == table \cup ins[p]

\* tx.Rollback: nothing of the transaction reaches the committed rows
TableAfterRollback(p) == table

\* a commit that makes the insertions visible and forgets the deletions
TableAfterCommitKeepOld(p) == table \cup ins[p]

\* tx.Commit: the deletions and the insertions become visible together
TableAfterCommit(p) == {r \in table : r.ID \notin del[p]} \cup ins[p]

\* a conversion that leaves PsikologID unset
ToEntitiesNoOwner(psikologID, payload) ==
  [i \in 1..Len(payload.Slots) |->
     [ID |-> 0, PsikologID |-> 0, Hari |-> payload.Slots[i].Hari,
      WaktuMulai |-> payload.Slots[i].WaktuMulai,
      WaktuSelesai |-> payload.Slots[i].WaktuSelesai]]

\* the conversion of SetAvailability: one WaktuKonsultasi per slot, ID unset
ToEntities(psikologID, payload) ==
  [i \in 1..Len(payload.Slots) |->
     [ID |-> 0, PsikologID |-> psikologID, Hari |-> payload.Slots[i].Hari,
      WaktuMulai |-> payload.Slots[i].WaktuMulai,
      WaktuSelesai |-> payload.Slots[i].WaktuSelesai]]

\* an insert of the first slot only instead of the batch
InsertedRowsFirstOnly(slots, first) ==
  {[slots[i] EXCEPT !.ID = first + i - 1] : i \in {1} \cap (1..Len(slots))}

\* tx.Create(&slots): the rows, with ids drawn from the sequence
InsertedRows(slots, first) ==
  {[slots[i] EXCEPT !.ID = first + i - 1] : i \in 1..Len(slots)}

\* a fault of the storage layer
DbFault == "storage fault"
ErrDelete == <<"failed to delete old availability slots", DbFault>>
ErrCreate == <<"failed to create new availability slots", DbFault>>
ErrCommit == <<DbFault>>
ErrGet == <<"failed to get availability", DbFault>>
MsgUpdateFailed == <<"Failed to update availability schedule">>
MsgRetrieveFailed == <<"Failed to retrieve availability schedule">>

\* a usecase that skips payload.Validate()
PayloadCheckSkipped(payload) == {Nil}

\* a usecase that refuses an empty list, as the min=1 tag of the handler does
PayloadCheckNonEmpty(payload) ==
  IF Len(payload.Slots) = 0
  THEN {NewDomainError(StatusBadRequest, <<"Slots must not be empty">>)}
  ELSE Validate(payload)

\* if err := payload.Validate(); err != nil
PayloadCheck(payload) == Validate(payload)

\* a usecase that hands back the error of ReplaceAll as it is, an error that
\* is not a DomainError
ReturnRepoError(err) == [HTTPStatus |-> 0, Message |-> err, Err |-> NoCause]

\* a usecase that builds the 500 error without the cause
WrapRepoErrorNoCause(err) == NewDomainError(StatusInternalServerError, MsgUpdateFailed)

\* what SetAvailability returns when ReplaceAll returned err
WrapRepoError(err) ==
  NewDomainErrorWithCause(StatusInternalServerError, MsgUpdateFailed, err)

\* the handlers whose call is inside ReplaceAll, or between ReplaceAll and
\* its return to the caller, for this psikolog
Replacing(psikologID) ==
  {q \in Procs : /\ pc[q] \notin {"idle", "returned"}
                 /\ req[q].op = "set"
                 /\ replaceCalls[q] > 0
                 /\ req[q].psikologID = psikologID}

\* requests are numbered as they arrive
NextToArrive(p) == pc[p] = "idle" /\ \A q \in Procs : q < p => pc[q] # "idle"

\* SetAvailability, up to the start of the DELETE statement of ReplaceAll,
\* which takes its snapshot of the committed rows.  A payload that fails
\* validation returns its error at once.
SetAvailability(p, psikologID, payload) ==
  /\ NextToArrive(p)
  /\ req' = [req EXCEPT ![p] = [op |-> "set", psikologID |-> psikologID, payload |-> payload, day |-> NoDay]]
  /\ pre' = [pre EXCEPT ![p] = RowsOf(table, psikologID)]
  /\ \E err \in PayloadCheck(payload) :
       IF err # Nil
       THEN /\ pc' = [pc EXCEPT ![p] = "done"]
            /\ ret' = [ret EXCEPT ![p] = err]
            /\ UNCHANGED <<newSlots, replaceCalls, queries, snap, alone>>
       ELSE /\ pc' = [pc EXCEPT ![p] = "deleting"]
            /\ newSlots' = [newSlots EXCEPT ![p] = ToEntities(psikologID, payload)]
            /\ replaceCalls' = [replaceCalls EXCEPT ![p] = replaceCalls[p] + 1]
            /\ snap' = [snap EXCEPT ![p] =
                          IDs({r \in table : MatchesOwner(r, psikologID)})]
            /\ alone' = [q \in Procs |->
                           IF q = p THEN Replacing(psikologID) = {}
                           ELSE alone[q] /\ q \notin Replacing(psikologID)]
            /\ UNCHANGED ret
  /\ UNCHANGED <<vvars, uvars, hvars, table, nextID, queries, del, ins, got>>

\* the transaction ends with err: Rollback, and SetAvailability wraps err
Abort(p, err) ==
  /\ table' = TableAfterRollback(p)
  /\ pc' = [pc EXCEPT ![p] = "done"]
  /\ ret' = [ret EXCEPT ![p] = WrapRepoError(err)]
  /\ snap' = [snap EXCEPT ![p] = {}]
  /\ del' = [del EXCEPT ![p] = {}]
  /\ ins' = [ins EXCEPT ![p] = {}]
  /\ UNCHANGED <<vvars, uvars, hvars, nextID, req, newSlots, replaceCalls, queries, got, pre, alone>>

\* the DELETE statement ends: the rows of the snapshot that still exist are
\* deleted in the transaction
DeleteFinish(p) ==
  /\ pc[p] = "deleting"
  /\ CanFinishDelete(p)
  /\ pc' = [pc EXCEPT ![p] = "deleted"]
  /\ del' = [del EXCEPT ![p] = snap[p] \cap IDs(table)]
  /\ table' = TableAfterDelete(p)
  /\ UNCHANGED <<vvars, uvars, hvars, nextID, req, newSlots, replaceCalls, queries, snap, ins, ret, got,
                 pre, alone>>

\* the DELETE statement fails
DeleteFail(p) ==
  /\ pc[p] = "deleting"
  /\ Abort(p, ErrDelete)

\* if len(slots) > 0 { tx.Create(&slots) }
Insert(p) ==
  /\ pc[p] = "deleted"
  /\ Len(newSlots[p]) > 0
  /\ pc' = [pc EXCEPT ![p] = "inserted"]
  /\ ins' = [ins EXCEPT ![p] = InsertedRows(newSlots[p], nextID)]
  /\ nextID' = nextID + Len(newSlots[p])
  /\ UNCHANGED <<vvars, uvars, hvars, table, req, newSlots, replaceCalls, queries, snap, del, ret, got,
                 pre, alone>>

\* tx.Create fails after the DELETE succeeded
InsertFail(p) ==
  /\ pc[p] = "deleted"
  /\ Len(newSlots[p]) > 0
  /\ Abort(p, ErrCreate)

\* the function given to Transaction returned nil and has nothing more to do
ReadyToCommit(p) ==
  \/ pc[p] = "inserted"
  \/ pc[p] = "deleted" /\ Len(newSlots[p]) = 0

\* Transaction commits
Commit(p) ==
  /\ ReadyToCommit(p)
  /\ table' = TableAfterCommit(p)
  /\ pc' = [pc EXCEPT ![p] = "done"]
  /\ ret' = [ret EXCEPT ![p] = Nil]
  /\ snap' = [snap EXCEPT ![p] = {}]
  /\ del' = [del EXCEPT ![p] = {}]
  /\ ins' = [ins EXCEPT ![p] = {}]
  /\ UNCHANGED <<vvars, uvars, hvars, nextID, req, newSlots, replaceCalls, queries, got, pre, alone>>

\* the COMMIT fails
CommitFail(p) ==
  /\ ReadyToCommit(p)
  /\ Abort(p, ErrCommit)

\* the position of a day name in the ascending order of the strings; the
\* list holds the seven labels and the other name stored by a request here
AlphabeticalDays ==
  <<"Jumat", "Kamis", "Minggu", "Monday", "Rabu", "Sabtu", "Selasa", "Senin">>
DayRank(d) == CHOOSE i \in 1..Len(AlphabeticalDays) : AlphabeticalDays[i] = d

\* Order("hari ASC, waktu_mulai ASC"): r may come before s
OrderedBefore(r, s) ==
  \/ DayRank(r.Hari) < DayRank(s.Hari)
  \/ /\ r.Hari = s.Hari
     /\ ParseTime(r.WaktuMulai).sec <= ParseTime(s.WaktuMulai).sec

\* the orders in which the rows can be returned: rows that compare equal
\* come in any order
RECURSIVE SortedSeqs(_)
SortedSeqs(rows) ==
  IF rows = {} THEN {<<>>}
  ELSE UNION {{<<r>> \o t : t \in SortedSeqs(rows \ {r})} :
              r \in {x \in rows : \A y \in rows : OrderedBefore(x, y)}}

\* GetByPsikologID: one SELECT over the committed rows
GetByPsikologID(psikologID) ==
  SortedSeqs({r \in table : MatchesOwner(r, psikologID)})

\* GetAvailability: the usecase returns what the repository read
GetAvailability(p, psikologID) ==
  /\ NextToArrive(p)
  /\ req' = [req EXCEPT ![p] = [op |-> "get", psikologID |-> psikologID, payload |-> PayloadEmpty,
                             day |-> NoDay]]
  /\ pc' = [pc EXCEPT ![p] = "done"]
  /\ \E q \in GetByPsikologID(psikologID) :
       got' = [got EXCEPT ![p] = [slots |-> q, during |-> Replacing(psikologID)]]
  /\ queries' = [queries EXCEPT ![p] = queries[p] + 1]
  /\ UNCHANGED <<vvars, uvars, hvars, table, nextID, newSlots, replaceCalls, snap, del, ins, ret,
                 pre, alone>>

\* GetAvailability when the query fails
GetAvailabilityFail(p, psikologID) ==
  /\ NextToArrive(p)
  /\ req' = [req EXCEPT ![p] = [op |-> "get", psikologID |-> psikologID, payload |-> PayloadEmpty,
                             day |-> NoDay]]
  /\ pc' = [pc EXCEPT ![p] = "done"]
  /\ ret' = [ret EXCEPT ![p] =
               NewDomainErrorWithCause(StatusInternalServerError, MsgRetrieveFailed, ErrGet)]
  /\ queries' = [queries EXCEPT ![p] = queries[p] + 1]
  /\ UNCHANGED <<vvars, uvars, hvars, table, nextID, newSlots, replaceCalls, snap, del, ins, got,
                 pre, alone>>

\* a day check that lets every string through
IsValidDayUnchecked(day) == TRUE

\* the loop of GetAvailabilityByDay over validDays: day == validDay
IsValidDay(day) == \E i \in 1..Len(CanonicalDays) : CanonicalDays[i] = day

MsgInvalidDayPrefix == "Invalid day:"

\* GetByPsikologIDAndDay: one SELECT over the committed rows of the psikolog
\* and the day, Order("waktu_mulai ASC")
GetByPsikologIDAndDay(psikologID, day) ==
  SortedSeqs({r \in table : MatchesOwner(r, psikologID) /\ r.Hari = day})

\* GetAvailabilityByDay: the day is checked first; a day outside validDays
\* returns the 400 error and the repository is not called
GetAvailabilityByDay(p, psikologID, day) ==
  /\ NextToArrive(p)
  /\ req' = [req EXCEPT ![p] = [op |-> "getday", psikologID |-> psikologID,
                                payload |-> PayloadEmpty, day |-> day]]
  /\ pc' = [pc EXCEPT ![p] = "done"]
  /\ IF ~IsValidDay(day)
     THEN /\ ret' = [ret EXCEPT ![p] =
                       NewDomainError(StatusBadRequest, <<MsgInvalidDayPrefix, day>>)]
          /\ queries' = queries
          /\ got' = got
     ELSE /\ queries' = [queries EXCEPT ![p] = queries[p] + 1]
          /\ \E q \in GetByPsikologIDAndDay(psikologID, day) :
               got' = [got EXCEPT ![p] = [slots |-> q, during |-> Replacing(psikologID)]]
          /\ ret' = ret
  /\ UNCHANGED <<vvars, uvars, hvars, table, nextID, newSlots, replaceCalls, snap, del, ins, pre, alone>>

\* GetAvailabilityByDay when the query fails
GetAvailabilityByDayFail(p, psikologID, day) ==
  /\ NextToArrive(p)
  /\ IsValidDay(day)
  /\ req' = [req EXCEPT ![p] = [op |-> "getday", psikologID |-> psikologID,
                                payload |-> PayloadEmpty, day |-> day]]
  /\ pc' = [pc EXCEPT ![p] = "done"]
  /\ queries' = [queries EXCEPT ![p] = queries[p] + 1]
  /\ ret' = [ret EXCEPT ![p] =
               NewDomainErrorWithCause(StatusInternalServerError, MsgRetrieveFailed, ErrGet)]
  /\ UNCHANGED <<vvars, uvars, hvars, table, nextID, newSlots, replaceCalls, snap, del, ins, got,
                 pre, alone>>

\* the call returns to its caller and the handler ends
Return(p) ==
  /\ pc[p] = "done"
  /\ pc' = [pc EXCEPT ![p] = "returned"]
  /\ req' = [req EXCEPT ![p] = NoReq]
  /\ newSlots' = [newSlots EXCEPT ![p] = <<>>]
  /\ replaceCalls' = [replaceCalls EXCEPT ![p] = 0]
  /\ queries' = [queries EXCEPT ![p] = 0]
  /\ ret' = [ret EXCEPT ![p] = Nil]
  /\ got' = [got EXCEPT ![p] = NoResult]
  /\ pre' = [pre EXCEPT ![p] = {}]
  /\ alone' = [alone EXCEPT ![p] = TRUE]
  /\ UNCHANGED <<vvars, uvars, hvars, table, nextID, snap, del, ins>>

\* the store is empty, or psikolog 1 has published PayloadA before
Init ==
  /\ vpayload = PayloadEmpty
  /\ vpc = "ready"
  /\ verr = Nil
  /\ serrs = <<>>
  /\ \E rows \in {{}, SeededRows} : InitDb(rows)
  /\ InitUsers({})
  /\ InitHandlers

Next ==
  \/ \E p \in Procs, o \in Owners, pl \in RequestPayloads : SetAvailability(p, o, pl)
  \/ \E p \in Procs : DeleteFinish(p)
  \/ \E p \in Procs : DeleteFail(p)
  \/ \E p \in Procs : Insert(p)
  \/ \E p \in Procs : InsertFail(p)
  \/ \E p \in Procs : Commit(p)
  \/ \E p \in Procs : CommitFail(p)
  \/ \E p \in Procs, o \in Owners : GetAvailability(p, o)
  \/ \E p \in Procs, o \in Owners : GetAvailabilityFail(p, o)
  \/ \E p \in Procs : Return(p)

Spec == Init /\ [][Next]_vars

(***************************************************************************)
(* Replacements alone, all of the schedule of one psikolog, over a store   *)
(* that is fair: a statement that can run is run in the end, and so is a   *)
(* commit.  Nothing says that a statement must fail.                       *)
(***************************************************************************)
FairPayloads == {PayloadA, PayloadB, PayloadEmpty}

\* the psikolog is the one of the seeded row
NextTx ==
  \/ \E p \in Procs, pl \in FairPayloads : SetAvailability(p, 1, pl)
  \/ \E p \in Procs : DeleteFinish(p)
  \/ \E p \in Procs : DeleteFail(p)
  \/ \E p \in Procs : Insert(p)
  \/ \E p \in Procs : InsertFail(p)
  \/ \E p \in Procs : Commit(p)
  \/ \E p \in Procs : CommitFail(p)

FairStore ==
  \A p \in Procs : WF_vars(DeleteFinish(p)) /\ WF_vars(Insert(p)) /\ WF_vars(Commit(p))

SpecFair == Init /\ [][NextTx]_vars /\ FairStore

(***************************************************************************)
(* One client that makes its calls one after another: a call starts only   *)
(* when the call before it has come back.  Besides the calls of Next it    *)
(* reads by day and publishes the slot of PayloadMonday, and the store may *)
(* start with a schedule of three rows.                                    *)
(***************************************************************************)
\* two slots on Senin, the later one first, and one on Rabu
PayloadWeek ==
  SetAvailabilityPayload(<<SlotPayload("Senin", T1000, T1100), SlotPayload("Senin", T0900, T0930),
                           SlotPayload("Rabu", T0900, T1000)>>)

\* the rows psikolog 1 has after one SetAvailability(1, PayloadWeek)
SeededRowsWeek == InsertedRows(ToEntities(1, PayloadWeek), 1)

InitSeq ==
  /\ vpayload = PayloadEmpty
  /\ vpc = "ready"
  /\ verr = Nil
  /\ serrs = <<>>
  /\ \E rows \in {{}, SeededRows, SeededRowsWeek} : InitDb(rows)
  /\ InitUsers({})
  /\ InitHandlers

\* every call made so far has come back, and only the handler of the last
\* one may still be holding its result
NoCallUnderWay ==
  /\ \A q \in Procs : pc[q] \in {"idle", "done", "returned"}
  /\ Cardinality({q \in Procs : pc[q] = "done"}) <= 1

\* a valid slot followed by a slot of 20 minutes
PayloadShort ==
  SetAvailabilityPayload(<<SlotPayload("Rabu", T0900, T1000), SlotPayload("Senin", T0900, T0920)>>)
\* one slot that ends before it starts
PayloadBackwards == SetAvailabilityPayload(<<SlotPayload("Senin", T1000, T0900)>>)

SeqPayloads == RequestPayloads \cup {PayloadMonday, PayloadShort, PayloadBackwards}

NextSeq ==
  \/ \E p \in Procs, o \in Owners, pl \in SeqPayloads :
       NoCallUnderWay /\ SetAvailability(p, o, pl)
  \/ \E p \in Procs : DeleteFinish(p)
  \/ \E p \in Procs : DeleteFail(p)
  \/ \E p \in Procs : Insert(p)
  \/ \E p \in Procs : InsertFail(p)
  \/ \E p \in Procs : Commit(p)
  \/ \E p \in Procs : CommitFail(p)
  \/ \E p \in Procs, o \in Owners : NoCallUnderWay /\ GetAvailability(p, o)
  \/ \E p \in Procs, o \in Owners : NoCallUnderWay /\ GetAvailabilityFail(p, o)
  \/ \E p \in Procs, o \in Owners, d \in RequestDays :
       NoCallUnderWay /\ GetAvailabilityByDay(p, o, d)
  \/ \E p \in Procs, o \in Owners, d \in RequestDays :
       NoCallUnderWay /\ GetAvailabilityByDayFail(p, o, d)
  \/ \E p \in Procs : Return(p)

SpecSeq == InitSeq /\ [][NextSeq]_vars

(***************************************************************************)
(* The user usecase (internal/usecase/user_usecase.go) over the users      *)
(* table.  Every statement of the repository is a transaction of its own;  *)
(* users.email and users.username carry a unique index.                    *)
(***************************************************************************)
\* unicode.ToLower on the characters the inputs are made of
LowerChar(c) == CASE c = "A" -> "a" [] c = "B" -> "b" [] OTHER -> c

\* strings.ToLower
ToLower(s) == [i \in 1..Len(s) |-> LowerChar(s[i])]

RECURSIVE TrimLeft(_)
TrimLeft(s) == IF Len(s) > 0 /\ s[1] = " " THEN TrimLeft(Tail(s)) ELSE s

RECURSIVE TrimRight(_)
TrimRight(s) ==
  IF Len(s) > 0 /\ s[Len(s)] = " " THEN TrimRight(SubSeq(s, 1, Len(s) - 1)) ELSE s

\* strings.TrimSpace
TrimSpace(s) == TrimRight(TrimLeft(s))

\* strings.ToLower(strings.TrimSpace(email))
NormalizeEmail(email) == ToLower(TrimSpace(email))

\* strings.ToLower(err.Error()), the text taken word by word
LowerWord(w) == CASE w = "ERROR:" -> "error:" [] w = "SQLSTATE" -> "sqlstate" [] OTHER -> w
LowerWords(e) == [i \in 1..Len(e) |-> LowerWord(e[i])]

\* strings.Contains on texts taken word by word
Contains(text, sub) ==
  \E i \in 1..(Len(text) - Len(sub) + 1) : SubSeq(text, i, i + Len(sub) - 1) = sub

\* a check that knows the code of MySQL only
isDuplicateKeyErrorMySQLOnly(err) == Contains(LowerWords(err), <<"1062">>)

isDuplicateKeyError(err) ==
  LET errStr == LowerWords(err)
  IN  \/ Contains(errStr, <<"23505">>)
      \/ Contains(errStr, <<"1062">>)
      \/ Contains(errStr, <<"unique", "constraint", "failed">>)
      \/ Contains(errStr, <<"duplicate", "key">>)
      \/ Contains(errStr, <<"already", "exists">>)

\* bcrypt.GenerateFromPassword: a text that is not the password
GenerateFromPassword(password) == <<"$2a$10$", password>>

\* bcrypt.CompareHashAndPassword returns nil
HashMatches(hash, password) ==
  Len(hash) = 2 /\ hash[1] = "$2a$10$" /\ hash[2] = password

\* generateJWT: the claims of the token (exp and iat left out)
generateJWT(user) == <<"user_id", user.ID, "role", user.Role>>

\* userRepository.GetByEmail: Where("LOWER(email) = ?", normalizedEmail).First
GetByEmail(email) ==
  LET normalizedEmail == NormalizeEmail(email)
      rows == {u \in users : ToLower(u.Email) = normalizedEmail}
  IN  IF rows = {} THEN [user |-> NoUser, err |-> ErrUserNotFound]
      ELSE [user |-> CHOOSE u \in rows : \A v \in rows : u.ID <= v.ID, err |-> NoError]

\* Login hands the error of GetByEmail back as it is
LoginErrorUnmapped(err) == err

\* Login, on err != nil of GetByEmail
LoginError(err) == IF err = ErrUserNotFound THEN ErrInvalidCredentials ELSE err

\* the unique indexes refuse the row
UniqueViolation(row) ==
  \E u \in users : u.Email = row.Email \/ u.Username = row.Username

\* requests are numbered as they arrive
UserNextToArrive(p) == upc[p] = "idle" /\ \A q \in Procs : q < p => upc[q] # "idle"

\* registerUser up to the call of Create: the email is normalized and looked
\* up; a user found ends the call, otherwise the password is hashed
registerUser(p, payload, role) ==
  /\ UserNextToArrive(p)
  /\ LET email == NormalizeEmail(payload.Email)
         r     == GetByEmail(email)
     IN  /\ ureq' = [ureq EXCEPT ![p] =
                       [op |-> "register", Username |-> payload.Username, Email |-> email,
                        Password |-> payload.Password, role |-> role]]
         /\ found' = [found EXCEPT ![p] = r]
         /\ IF r.err = NoError /\ r.user # NoUser
            THEN /\ upc' = [upc EXCEPT ![p] = "done"]
                 /\ ures' = [ures EXCEPT ![p] = [NoUserResult EXCEPT !.err = ErrEmailAlreadyExists]]
                 /\ UNCHANGED newUser
            ELSE /\ upc' = [upc EXCEPT ![p] = "creating"]
                 /\ newUser' = [newUser EXCEPT ![p] =
                                  [ID |-> 0, Username |-> TrimSpace(payload.Username),
                                   Email |-> email,
                                   Password |-> GenerateFromPassword(payload.Password),
                                   Role |-> role]]
                 /\ UNCHANGED ures
  /\ UNCHANGED <<vvars, dbvars, hvars, users, nextUserID, createCalls>>

\* registerUser when GetByEmail fails with an error other than ErrUserNotFound
registerUserGetFail(p, payload, role) ==
  /\ UserNextToArrive(p)
  /\ ureq' = [ureq EXCEPT ![p] =
                [op |-> "register", Username |-> payload.Username,
                 Email |-> NormalizeEmail(payload.Email),
                 Password |-> payload.Password, role |-> role]]
  /\ found' = [found EXCEPT ![p] = [user |-> NoUser, err |-> ErrDatabase]]
  /\ upc' = [upc EXCEPT ![p] = "done"]
  /\ ures' = [ures EXCEPT ![p] = [NoUserResult EXCEPT !.err = ErrDatabase]]
  /\ UNCHANGED <<vvars, dbvars, hvars, users, nextUserID, newUser, createCalls>>

\* what registerUser returns when Create returned err
CreateError(err) == IF isDuplicateKeyError(err) THEN ErrEmailAlreadyExists ELSE err

\* uc.userRepo.Create: the repository normalizes the email once more, the
\* INSERT takes a value of the id sequence, and the unique indexes refuse a
\* row whose email or username is taken
Create(p) ==
  /\ upc[p] = "creating"
  /\ createCalls' = [createCalls EXCEPT ![p] = createCalls[p] + 1]
  /\ upc' = [upc EXCEPT ![p] = "done"]
  /\ nextUserID' = nextUserID + 1
  /\ LET row == [newUser[p] EXCEPT !.Email = NormalizeEmail(@), !.ID = nextUserID]
     IN  IF UniqueViolation(row)
         THEN /\ users' = users
              /\ ures' = [ures EXCEPT ![p] =
                            [NoUserResult EXCEPT !.err = CreateError(ErrUniqueViolation)]]
         ELSE /\ users' = users \cup {row}
              /\ ures' = [ures EXCEPT ![p] = [NoUserResult EXCEPT !.user = row]]
  /\ UNCHANGED <<vvars, dbvars, hvars, ureq, found, newUser>>

\* Create fails for a reason of the database's own
CreateFail(p) ==
  /\ upc[p] = "creating"
  /\ createCalls' = [createCalls EXCEPT ![p] = createCalls[p] + 1]
  /\ upc' = [upc EXCEPT ![p] = "done"]
  /\ ures' = [ures EXCEPT ![p] = [NoUserResult EXCEPT !.err = CreateError(ErrDatabase)]]
  /\ UNCHANGED <<vvars, dbvars, hvars, users, nextUserID, ureq, found, newUser>>

\* the request of Login as the usecase holds it after normalizing the email
LoginReq(payload) ==
  [op |-> "login", Username |-> <<>>, Email |-> NormalizeEmail(payload.Email),
   Password |-> payload.Password, role |-> ""]

\* Login over userRepository: one query, then the comparison of the hash
Login(p, payload) ==
  /\ UserNextToArrive(p)
  /\ ureq' = [ureq EXCEPT ![p] = LoginReq(payload)]
  /\ upc' = [upc EXCEPT ![p] = "done"]
  /\ LET r == GetByEmail(NormalizeEmail(payload.Email))
     IN  /\ found' = [found EXCEPT ![p] = r]
         /\ ures' = [ures EXCEPT ![p] =
              IF r.err # NoError THEN [NoUserResult EXCEPT !.err = LoginError(r.err)]
              ELSE IF ~HashMatches(r.user.Password, payload.Password)
                   THEN [NoUserResult EXCEPT !.err = ErrInvalidCredentials]
              ELSE [NoUserResult EXCEPT
                      !.response = [Token |-> generateJWT(r.user),
                                    User |-> [r.user EXCEPT !.Password = <<>>]]]]
  /\ UNCHANGED <<vvars, dbvars, hvars, users, nextUserID, newUser, createCalls>>

\* Login when GetByEmail fails with an error other than ErrUserNotFound
LoginGetFail(p, payload) ==
  /\ UserNextToArrive(p)
  /\ ureq' = [ureq EXCEPT ![p] = LoginReq(payload)]
  /\ upc' = [upc EXCEPT ![p] = "done"]
  /\ found' = [found EXCEPT ![p] = [user |-> NoUser, err |-> ErrDatabase]]
  /\ ures' = [ures EXCEPT ![p] = [NoUserResult EXCEPT !.err = LoginError(ErrDatabase)]]
  /\ UNCHANGED <<vvars, dbvars, hvars, users, nextUserID, newUser, createCalls>>

\* Login over a domain.UserRepository whose GetByEmail returns (nil, nil),
\* as the mock of the usecase's tests does: err is nil, so the call goes on
\* to read user.Password through the nil pointer and panics
LoginNilUser(p, payload) ==
  /\ UserNextToArrive(p)
  /\ ureq' = [ureq EXCEPT ![p] = LoginReq(payload)]
  /\ found' = [found EXCEPT ![p] = [user |-> NoUser, err |-> NoError]]
  /\ upc' = [upc EXCEPT ![p] = "panicked"]
  /\ UNCHANGED <<vvars, dbvars, hvars, users, nextUserID, newUser, createCalls, ures>>

\* the characters of the emails and names of the requests
EmailA == <<"a", "@", "x">>
NameAnn == <<"a", "n", "n">>

\* EmailA, another email, and EmailA in another case with spaces around it
UserEmails == {EmailA, <<"b", "@", "x">>, <<" ", "A", "@", "x", " ">>}
UserNames == {NameAnn, <<"b", "o", "b">>}
UserPasswords == {"password1", "password2"}

RegisterPayloads ==
  {[Username |-> n, Email |-> e, Password |-> "password1"] : n \in UserNames, e \in UserEmails}
LoginPayloads == {[Email |-> e, Password |-> w] : e \in UserEmails, w \in UserPasswords}

\* ann, registered before with EmailA and password1
SeededUser ==
  [ID |-> 1, Username |-> NameAnn, Email |-> EmailA,
   Password |-> GenerateFromPassword("password1"), Role |-> "klien"]

InitUser ==
  /\ vpayload = PayloadEmpty
  /\ vpc = "ready"
  /\ verr = Nil
  /\ serrs = <<>>
  /\ InitDb({})
  /\ \E rows \in {{}, {SeededUser}} : InitUsers(rows)
  /\ InitHandlers

\* Register and RegisterPsychologist differ by the role they pass
NextUser ==
  \/ \E p \in Procs, pl \in RegisterPayloads, role \in {"klien", "psikolog"} :
       registerUser(p, pl, role)
  \/ \E p \in Procs, pl \in RegisterPayloads, role \in {"klien", "psikolog"} :
       registerUserGetFail(p, pl, role)
  \/ \E p \in Procs : Create(p)
  \/ \E p \in Procs : CreateFail(p)
  \/ \E p \in Procs, pl \in LoginPayloads : Login(p, pl)
  \/ \E p \in Procs, pl \in LoginPayloads : LoginGetFail(p, pl)
  \/ \E p \in Procs, pl \in LoginPayloads : LoginNilUser(p, pl)

SpecUser == InitUser /\ [][NextUser]_vars

(***************************************************************************)
(* AvailabilityHandler.SetAvailability: the request is checked, the        *)
(* usecase is called, and its error is turned into the response.           *)
(***************************************************************************)
\* the tags of SlotPayload: required, oneof, datetime=15:04:05
SlotTagsValid(slot) ==
  /\ slot.Hari # ""
  /\ \E i \in 1..Len(CanonicalDays) : CanonicalDays[i] = slot.Hari
  /\ Len(slot.WaktuMulai) > 0 /\ ParseTime(slot.WaktuMulai).ok
  /\ Len(slot.WaktuSelesai) > 0 /\ ParseTime(slot.WaktuSelesai).ok

\* the tags without min=1
StructValidNoMin(body) ==
  /\ body.hasSlots
  /\ \A i \in 1..Len(body.Slots) : SlotTagsValid(body.Slots[i])

\* h.validator.Struct(payload) returns nil: required,min=1,dive
StructValid(body) ==
  /\ body.hasSlots
  /\ Len(body.Slots) >= 1
  /\ \A i \in 1..Len(body.Slots) : SlotTagsValid(body.Slots[i])

\* a handler that lets the body name the psikolog
OwnerFromBody(ctx, body) == IF body.psikolog_id # 0 THEN body.psikolog_id ELSE ctx.value

\* psikologID, ok := userID.(uint); the body has no part in it
OwnerOf(ctx, body) == ctx.value

\* the response written before the usecase is called, NoResp when the
\* request passes every check
Refusal(ctx, body) ==
  IF ~ctx.exists
  THEN [status |-> StatusUnauthorized, message |-> <<"User ID not found in token">>]
  ELSE IF ctx.type # "uint"
  THEN [status |-> StatusUnauthorized, message |-> <<"Invalid user ID format">>]
  ELSE IF ~body.wellFormed
  THEN [status |-> StatusBadRequest, message |-> <<"Invalid request payload">>]
  ELSE IF ~StructValid(body)
  THEN [status |-> StatusBadRequest, message |-> <<"Validation failed">>]
  ELSE NoResp

\* the response written after the usecase returned err: errors.As finds a
\* DomainError, or the error is of another type
ResponseFor(err) ==
  IF err = Nil
  THEN [status |-> StatusOK, message |-> <<"Availability schedule updated successfully">>]
  ELSE IF err.HTTPStatus # 0 THEN [status |-> err.HTTPStatus, message |-> err.Message]
  ELSE [status |-> StatusInternalServerError, message |-> <<"Failed to update availability">>]

\* the handler up to the call of the usecase: a request that fails a check
\* is answered at once; requests are numbered as they are received
HandlerReceive(p, ctx, body) ==
  /\ ~hreq[p].received /\ \A q \in Procs : q < p => hreq[q].received
  /\ hreq' = [hreq EXCEPT ![p] = [received |-> TRUE, ctx |-> ctx, body |-> body]]
  /\ resp' = [resp EXCEPT ![p] = Refusal(ctx, body)]
  /\ pc' = [pc EXCEPT ![p] = IF Refusal(ctx, body) # NoResp THEN "refused" ELSE pc[p]]
  /\ UNCHANGED <<vvars, uvars, table, nextID, req, newSlots, replaceCalls, queries, snap,
                 del, ins, ret, got, pre, alone>>

\* h.availabilityUsecase.SetAvailability(ctx, psikologID, &payload)
HandlerCall(p) ==
  /\ hreq[p].received
  /\ resp[p] = NoResp
  /\ SetAvailability(p, OwnerOf(hreq[p].ctx, hreq[p].body),
                     SetAvailabilityPayload(hreq[p].body.Slots))

\* the usecase returned: the handler writes the response and ends
HandlerRespond(p) ==
  /\ hreq[p].received
  /\ pc[p] = "done"
  /\ resp' = [resp EXCEPT ![p] = ResponseFor(ret[p])]
  /\ pc' = [pc EXCEPT ![p] = "returned"]
  /\ UNCHANGED <<vvars, uvars, hreq, table, nextID, req, newSlots, replaceCalls, queries,
                 snap, del, ins, ret, got, pre, alone>>

BodyOf(payload) == Body(TRUE, TRUE, payload.Slots, 0)

\* bodies: not JSON, no key slots, an empty list, lists of the usecase's
\* requests, and a list sent with psikolog_id set to 2
HandlerBodies ==
  {Body(FALSE, FALSE, <<>>, 0), Body(TRUE, FALSE, <<>>, 0), BodyOf(PayloadEmpty),
   BodyOf(PayloadA), BodyOf(PayloadMonday), Body(TRUE, TRUE, PayloadB.Slots, 2)}

HandlerContexts == {CtxAbsent, CtxFloat(1)} \cup {CtxUint(o) : o \in Owners}

\* psikolog 1 has the row of PayloadA and psikolog 2 a row on Rabu
SeededRowsBoth ==
  SeededRows \cup
    {[ID |-> 2, PsikologID |-> 2, Hari |-> "Rabu", WaktuMulai |-> T0900, WaktuSelesai |-> T1000]}

InitHandler ==
  /\ vpayload = PayloadEmpty
  /\ vpc = "ready"
  /\ verr = Nil
  /\ serrs = <<>>
  /\ \E rows \in {{}, SeededRowsBoth} : InitDb(rows)
  /\ InitUsers({})
  /\ InitHandlers

\* every request received so far has been answered
AllAnswered == \A q \in Procs : hreq[q].received => resp[q] # NoResp

\* one client that sends a request when the one before it has been answered
NextHandler ==
  \/ \E p \in Procs, ctx \in HandlerContexts, body \in HandlerBodies :
       AllAnswered /\ HandlerReceive(p, ctx, body)
  \/ \E p \in Procs : HandlerCall(p)
  \/ \E p \in Procs : DeleteFinish(p)
  \/ \E p \in Procs : DeleteFail(p)
  \/ \E p \in Procs : Insert(p)
  \/ \E p \in Procs : InsertFail(p)
  \/ \E p \in Procs : Commit(p)
  \/ \E p \in Procs : CommitFail(p)
  \/ \E p \in Procs : HandlerRespond(p)

SpecHandler == InitHandler /\ [][NextHandler]_vars

(***************************************************************************)
(* What the properties say about a slot, stated without the code's parser. *)
(***************************************************************************)
\* s is HH:MM:SS: 24-hour, zero-padded, seconds mandatory
IsHMS(s) ==
  /\ Len(s) = 8
  /\ \A i \in {1, 2, 4, 5, 7, 8} : \E d \in 1..10 : DigitChars[d] = s[i]
  /\ s[3] = ":" /\ s[6] = ":"
  /\ DigitVal(s[1]) * 10 + DigitVal(s[2]) < 24
  /\ DigitVal(s[4]) * 10 + DigitVal(s[5]) < 60
  /\ DigitVal(s[7]) * 10 + DigitVal(s[8]) < 60

SecondsOfHMS(s) ==
  (DigitVal(s[1]) * 10 + DigitVal(s[2])) * 3600
    + (DigitVal(s[4]) * 10 + DigitVal(s[5])) * 60
    + DigitVal(s[7]) * 10 + DigitVal(s[8])

IsCanonicalDay(d) == \E i \in 1..Len(CanonicalDays) : CanonicalDays[i] = d

TimesAreHMS(s) == IsHMS(s.WaktuMulai) /\ IsHMS(s.WaktuSelesai)

StartOf(s) == SecondsOfHMS(s.WaktuMulai)
EndOf(s) == SecondsOfHMS(s.WaktuSelesai)

\* a slot that meets every rule of the data model
WellFormedSlot(s) ==
  /\ IsCanonicalDay(s.Hari)
  /\ TimesAreHMS(s)
  /\ StartOf(s) < EndOf(s)
  /\ EndOf(s) - StartOf(s) >= 30 * 60

\* start1 < end2 AND start2 < end1
Intersect(s1, s2) == StartOf(s1) < EndOf(s2) /\ StartOf(s2) < EndOf(s1)

IsOverlapError(e) ==
  /\ e.HTTPStatus = 400
  /\ Len(e.Message) >= 1
  /\ e.Message[1] = MsgOverlapPrefix

\* C7: for a list of individually valid slots, SetAvailabilityPayload.Validate
\* fails with an overlap error (status 400) when two slots of the same day
\* have start1 < end2 and start2 < end1, and succeeds when no two slots of the
\* same day do, whatever the slots of different days are.
C7_OverlapSameDayOnly ==
  (vpc = "done" /\ \A i \in 1..Len(vpayload.Slots) : WellFormedSlot(vpayload.Slots[i]))
  => LET sl == vpayload.Slots
         clash == \E i, j \in 1..Len(sl) :
                    i # j /\ sl[i].Hari = sl[j].Hari /\ Intersect(sl[i], sl[j])
     IN  /\ clash => IsOverlapError(verr)
         /\ ~clash => verr = Nil

\* two slots with the same time range on different days were accepted
C7_Witness ==
  /\ vpc = "done"
  /\ Len(vpayload.Slots) = 2
  /\ WellFormedSlot(vpayload.Slots[1]) /\ WellFormedSlot(vpayload.Slots[2])
  /\ vpayload.Slots[1].Hari # vpayload.Slots[2].Hari
  /\ vpayload.Slots[1].WaktuMulai = vpayload.Slots[2].WaktuMulai
  /\ vpayload.Slots[1].WaktuSelesai = vpayload.Slots[2].WaktuSelesai
  /\ verr = Nil

\* C8: SlotPayload.Validate succeeds for every slot with a canonical day whose
\* times are HH:MM:SS with start < end and end - start >= 30 minutes.
C8_ValidSlotAccepted ==
  vpc = "done" =>
    \A i \in 1..Len(vpayload.Slots) :
      WellFormedSlot(vpayload.Slots[i]) => serrs[i] = Nil

\* a slot of exactly 30 minutes went through SlotPayload.Validate
C8_Witness ==
  /\ vpc = "done"
  /\ \E i \in 1..Len(vpayload.Slots) :
       /\ WellFormedSlot(vpayload.Slots[i])
       /\ EndOf(vpayload.Slots[i]) - StartOf(vpayload.Slots[i]) = 30 * 60
       /\ serrs[i] = Nil

\* C9: SlotPayload.Validate fails with the start-not-before-end error for
\* every slot with HH:MM:SS times where start >= end, start = end included;
\* the duration error is never the one reported for such a slot.
C9_StartNotBeforeEnd ==
  vpc = "done" =>
    \A i \in 1..Len(vpayload.Slots) :
      (TimesAreHMS(vpayload.Slots[i]) /\ StartOf(vpayload.Slots[i]) >= EndOf(vpayload.Slots[i]))
        => /\ serrs[i].HTTPStatus = 400
           /\ serrs[i].Message = MsgStartBeforeEnd

\* a slot with start = end and one with start > end went through SlotPayload.Validate
C9_Witness ==
  /\ vpc = "done"
  /\ Len(vpayload.Slots) = 2
  /\ TimesAreHMS(vpayload.Slots[1]) /\ TimesAreHMS(vpayload.Slots[2])
  /\ StartOf(vpayload.Slots[1]) = EndOf(vpayload.Slots[1])
  /\ StartOf(vpayload.Slots[2]) > EndOf(vpayload.Slots[2])
  /\ serrs[1].Message = MsgStartBeforeEnd
  /\ serrs[2].Message = MsgStartBeforeEnd

\* C10: SlotPayload.Validate fails with the duration-too-short error for every
\* slot with start < end and end - start < 30 minutes, and accepts a slot of
\* exactly 30 minutes.
C10_MinDuration ==
  vpc = "done" =>
    \A i \in 1..Len(vpayload.Slots) :
      LET s == vpayload.Slots[i]
      IN  (TimesAreHMS(s) /\ StartOf(s) < EndOf(s))
            => /\ EndOf(s) - StartOf(s) < 30 * 60
                    => (serrs[i].HTTPStatus = 400 /\ serrs[i].Message = MsgMinDuration)
               /\ EndOf(s) - StartOf(s) = 30 * 60 => serrs[i] = Nil

\* a 20-minute slot was refused and a 30-minute slot accepted
C10_Witness ==
  /\ vpc = "done"
  /\ Len(vpayload.Slots) = 2
  /\ TimesAreHMS(vpayload.Slots[1]) /\ TimesAreHMS(vpayload.Slots[2])
  /\ EndOf(vpayload.Slots[1]) - StartOf(vpayload.Slots[1]) = 20 * 60
  /\ serrs[1].Message = MsgMinDuration
  /\ EndOf(vpayload.Slots[2]) - StartOf(vpayload.Slots[2]) = 30 * 60
  /\ serrs[2] = Nil

\* the list with the slots at a and b exchanged
Swap(slots, a, b) ==
  [i \in 1..Len(slots) |-> IF i = a THEN slots[b] ELSE IF i = b THEN slots[a] ELSE slots[i]]

\* C20: SetAvailabilityPayload.Validate returns the error of the first slot
\* of the list that is invalid on its own, overlaps or not, and the error
\* tells which slot of the list it is: with that slot at another place of
\* the list, the error returned is another.
C20_FirstInvalidSlotIdentified ==
  (vpc = "done" /\ \E i \in 1..Len(vpayload.Slots) : serrs[i] # Nil)
    => LET k == CHOOSE i \in 1..Len(vpayload.Slots) :
                  serrs[i] # Nil /\ \A j \in 1..(i - 1) : serrs[j] = Nil
       IN  /\ verr = serrs[k]
           /\ \A i \in 1..Len(vpayload.Slots) :
                (i # k /\ serrs[i] = Nil)
                  => verr \notin Validate(SetAvailabilityPayload(Swap(vpayload.Slots, k, i)))

\* C26: a list whose slots each pass SlotPayload.Validate and in which no two
\* slots of the same day have start1 < end2 and start2 < end1 is accepted;
\* two slots of a day of which one ends when the other starts are such a pair.
C26_TouchingSlotsAccepted ==
  (vpc = "done" /\ \A i \in 1..Len(vpayload.Slots) : serrs[i] = Nil)
    => LET sl == vpayload.Slots
       IN  (\A i, j \in 1..Len(sl) :
              (i # j /\ sl[i].Hari = sl[j].Hari)
                => (EndOf(sl[i]) <= StartOf(sl[j]) \/ EndOf(sl[j]) <= StartOf(sl[i])))
             => verr = Nil

\* 09:30-10:00 followed by 09:00-09:30 on the same day was accepted
C26_Witness ==
  /\ vpc = "done"
  /\ Len(vpayload.Slots) = 2
  /\ vpayload.Slots[1].Hari = vpayload.Slots[2].Hari
  /\ serrs[1] = Nil /\ serrs[2] = Nil
  /\ StartOf(vpayload.Slots[1]) = EndOf(vpayload.Slots[2])
  /\ verr = Nil

\* the list with its slots in the order f gives
Permuted(slots, f) == [i \in 1..Len(slots) |-> slots[f[i]]]

\* C27: the list is accepted exactly when every list made of the same slots
\* in another order is accepted.
C27_OrderIndependent ==
  vpc = "done" =>
    \A f \in Permutations(1..Len(vpayload.Slots)) :
      (verr = Nil) <=> (Validate(SetAvailabilityPayload(Permuted(vpayload.Slots, f))) = {Nil})

\* two overlapping slots of a day, the one that starts later first, were
\* refused for their overlap
C27_Witness ==
  /\ vpc = "done"
  /\ Len(vpayload.Slots) = 2
  /\ vpayload.Slots[1].Hari = vpayload.Slots[2].Hari
  /\ serrs[1] = Nil /\ serrs[2] = Nil
  /\ StartOf(vpayload.Slots[1]) > StartOf(vpayload.Slots[2])
  /\ Intersect(vpayload.Slots[1], vpayload.Slots[2])
  /\ IsOverlapError(verr)

(***************************************************************************)
(* What the properties say about the store.                                *)
(***************************************************************************)
TimesOf(r) == [Hari |-> r.Hari, WaktuMulai |-> r.WaktuMulai, WaktuSelesai |-> r.WaktuSelesai]

\* the rows are exactly the slots of the list, one row per slot
SameSchedule(rows, slots) ==
  /\ Cardinality(rows) = Len(slots)
  /\ {TimesOf(r) : r \in rows} = {TimesOf(slots[i]) : i \in 1..Len(slots)}

Range(q) == {q[i] : i \in 1..Len(q)}

\* the call of p went into ReplaceAll
CalledReplaceAll(p) == req[p].op = "set" /\ replaceCalls[p] > 0

\* the call of p has come back from ReplaceAll with an error
ReplaceAllFailed(p) ==
  pc[p] = "done" /\ CalledReplaceAll(p) /\ ret[p].Err # NoCause

\* the call of p has come back from ReplaceAll without an error
ReplaceAllSucceeded(p) ==
  pc[p] = "done" /\ CalledReplaceAll(p) /\ ret[p] = Nil

\* C1: when a step of ReplaceAll fails, the insert after a successful delete
\* included, the call returns an error and the owner's persisted rows are
\* the rows it had before the call (no other ReplaceAll for the owner having
\* overlapped the call).
C1_FailedReplaceAllRollsBack ==
  \A p \in Procs :
    (ReplaceAllFailed(p) /\ alone[p])
      => /\ ret[p].HTTPStatus = 500
         /\ RowsOf(table, req[p].psikologID) = pre[p]

\* the insert failed after the delete of a non-empty schedule
C1_Witness ==
  \E p \in Procs :
    /\ ReplaceAllFailed(p) /\ alone[p]
    /\ ret[p].Err = ErrCreate
    /\ pre[p] # {}
    /\ RowsOf(table, req[p].psikologID) = pre[p]

\* C2: a call whose payload fails validation returns the validation error in
\* the step that makes it, never enters ReplaceAll, and leaves the committed
\* rows and every open transaction as they were.
C2_RejectedPayloadWritesNothing ==
  [][\A p \in Procs :
       /\ (pc[p] = "idle" /\ pc'[p] # "idle" /\ req'[p].op = "set"
             /\ Validate(req'[p].payload) # {Nil})
          => /\ pc'[p] = "done"
             /\ ret'[p] \in Validate(req'[p].payload)
             /\ replaceCalls'[p] = 0
             /\ table' = table /\ snap' = snap /\ del' = del /\ ins' = ins
       /\ (pc[p] = "done" /\ req[p].op = "set" /\ replaceCalls[p] = 0)
          => replaceCalls'[p] = 0]_vars

\* the overlapping payload of the scenario was refused and the seeded rows are intact
C2_Witness ==
  \E p \in Procs :
    /\ pc[p] = "done"
    /\ req[p].op = "set"
    /\ req[p].payload = PayloadOverlap
    /\ IsOverlapError(ret[p])
    /\ replaceCalls[p] = 0
    /\ table = SeededRows

\* C3: no owner's persisted schedule holds two distinct slots of the same day
\* with start1 < end2 and start2 < end1.
C3_NoPersistedOverlap ==
  \A r1, r2 \in table :
    (r1 # r2 /\ r1.PsikologID = r2.PsikologID /\ r1.Hari = r2.Hari)
      => ~Intersect(r1, r2)

\* C4: when two calls of ReplaceAll for the same owner overlap and both
\* commit, with no other call made, the owner's schedule is the slot list of
\* one of the two, in full and with nothing of the other.
C4_LastCommitWins ==
  \A p, q \in Procs :
    (/\ p # q
     /\ req[p].psikologID = req[q].psikologID
     /\ ReplaceAllSucceeded(p) /\ ReplaceAllSucceeded(q)
     /\ ~alone[p] /\ ~alone[q]
     /\ \A r \in Procs \ {p, q} : pc[r] = "idle")
      => \/ SameSchedule(RowsOf(table, req[p].psikologID), newSlots[p])
         \/ SameSchedule(RowsOf(table, req[p].psikologID), newSlots[q])

\* C5: a GetByPsikologID that runs while a ReplaceAll for the same owner is
\* under way (no other ReplaceAll for the owner overlapping it) returns the
\* owner's rows of before the call or the rows of the new list, in full.
C5_ReadSeesOldOrNew ==
  \A r \in Procs :
    (pc[r] = "done" /\ req[r].op = "get" /\ ret[r] = Nil)
      => \A p \in got[r].during :
           (pc[p] # "returned" /\ alone[p])
             => \/ /\ Range(got[r].slots) = pre[p]
                   /\ Len(got[r].slots) = Cardinality(pre[p])
                \/ SameSchedule(Range(got[r].slots), newSlots[p])

\* a read between the delete and the commit of a replacement of a non-empty
\* schedule by a non-empty one returned the old rows
C5_Witness ==
  \E r, p \in Procs :
    /\ pc[r] = "done" /\ req[r].op = "get" /\ ret[r] = Nil
    /\ p \in got[r].during
    /\ pc[p] \in {"deleted", "inserted"} /\ del[p] # {}
    /\ alone[p]
    /\ pre[p] # {} /\ Len(newSlots[p]) > 0
    /\ Range(got[r].slots) = pre[p]

\* C6: a ReplaceAll changes the rows of its own owner only; a DELETE never
\* waits for a transaction of another owner; and a call that no other call
\* for its owner overlapped ends, when it commits, with exactly its slot list
\* persisted for its owner, whatever calls for other owners do meanwhile.
C6_OwnersIndependent ==
  /\ [](\A p \in Procs :
          /\ (ReplaceAllSucceeded(p) /\ alone[p])
             => SameSchedule(RowsOf(table, req[p].psikologID), newSlots[p])
          /\ (pc[p] = "deleting"
                /\ \A q \in Procs \ {p} :
                     InTx(q) => req[q].psikologID # req[p].psikologID)
             => CanFinishDelete(p))
  /\ [][\A o \in Owners :
          RowsOf(table', o) # RowsOf(table, o)
            => \E p \in Procs :
                 InTx(p) /\ pc'[p] = "done" /\ ret'[p] = Nil /\ req[p].psikologID = o]_vars

\* two calls for different owners committed while both were under way, and
\* each owner has the rows of its call
C6_Witness ==
  \E p, q \in Procs :
    /\ req[p].psikologID # req[q].psikologID
    /\ ReplaceAllSucceeded(p) /\ ReplaceAllSucceeded(q)
    /\ alone[p] /\ alone[q]
    /\ Len(newSlots[p]) > 0 /\ Len(newSlots[q]) > 0
    /\ SameSchedule(RowsOf(table, req[p].psikologID), newSlots[p])
    /\ SameSchedule(RowsOf(table, req[q].psikologID), newSlots[q])

(***************************************************************************)
(* What the properties say about calls made one after another.             *)
(***************************************************************************)
\* C11: a slot whose day is not one of the seven labels, compared exactly, is
\* refused with a client error before ReplaceAll is called, and no persisted
\* row carries such a day.
C11_NonCanonicalDayRejected ==
  /\ \A r \in table : IsCanonicalDay(r.Hari)
  /\ \A p \in Procs :
       (/\ pc[p] = "done" /\ req[p].op = "set"
        /\ \E i \in 1..Len(req[p].payload.Slots) :
             ~IsCanonicalDay(req[p].payload.Slots[i].Hari))
         => ret[p].HTTPStatus = 400 /\ replaceCalls[p] = 0

\* the slots of a set of rows with the number of rows that hold each, row
\* identifiers left out
ContentOf(rows) ==
  [t \in {TimesOf(r) : r \in rows} |-> Cardinality({r \in rows : TimesOf(r) = t})]

\* q made the call right after the call of p
JustAfter(p, q) == q = p + 1 /\ pc[q] # "idle"

\* no call was made after the call of p
LastCall(p) == \A q \in Procs : q > p => pc[q] = "idle"

\* C12: when ReplaceAll(owner, S) succeeds and the next call is ReplaceAll(owner, S)
\* again, the owner's persisted slots after the second call are, row
\* identifiers apart, the slots persisted after the first.
C12_ReplaceAllIdempotent ==
  \A p, q \in Procs :
    (/\ JustAfter(p, q) /\ LastCall(q)
     /\ ReplaceAllSucceeded(p) /\ ReplaceAllSucceeded(q)
     /\ req[p].psikologID = req[q].psikologID
     /\ req[p].payload = req[q].payload)
      => ContentOf(RowsOf(table, req[q].psikologID)) = ContentOf(pre[q])

\* the same list of two slots was published twice in a row and the rows of
\* the second call are new rows
C12_Witness ==
  \E p, q \in Procs :
    /\ JustAfter(p, q) /\ LastCall(q)
    /\ ReplaceAllSucceeded(p) /\ ReplaceAllSucceeded(q)
    /\ req[p].psikologID = req[q].psikologID
    /\ req[p].payload = req[q].payload
    /\ Len(newSlots[q]) = 2
    /\ Cardinality(pre[q]) = 2
    /\ IDs(RowsOf(table, req[q].psikologID)) \cap IDs(pre[q]) = {}
    /\ ContentOf(RowsOf(table, req[q].psikologID)) = ContentOf(pre[q])

\* C13: when ReplaceAll(owner, S) succeeds, whatever rows the owner had, and
\* the next call is GetByPsikologID(owner), the read returns one row per slot
\* of S, with the slots of S, and no row of before the call.
C13_ReadReturnsReplacement ==
  \A p, r \in Procs :
    (/\ JustAfter(p, r)
     /\ ReplaceAllSucceeded(p)
     /\ pc[r] = "done" /\ req[r].op = "get" /\ ret[r] = Nil
     /\ req[r].psikologID = req[p].psikologID)
      => /\ Len(got[r].slots) = Len(newSlots[p])
         /\ SameSchedule(Range(got[r].slots), newSlots[p])
         /\ IDs(Range(got[r].slots)) \cap IDs(pre[p]) = {}

\* a schedule of three rows was replaced by a list of one slot and the read
\* after it returned that slot alone
C13_Witness ==
  \E p, r \in Procs :
    /\ JustAfter(p, r)
    /\ ReplaceAllSucceeded(p)
    /\ pc[r] = "done" /\ req[r].op = "get" /\ ret[r] = Nil
    /\ req[r].psikologID = req[p].psikologID
    /\ Cardinality(pre[p]) = 3
    /\ Len(newSlots[p]) = 1
    /\ Len(got[r].slots) = 1
    /\ TimesOf(got[r].slots[1]) = TimesOf(newSlots[p][1])

\* the place of a label in Senin, Selasa, Rabu, Kamis, Jumat, Sabtu, Minggu
WeekdayRank(d) == CHOOSE i \in 1..Len(CanonicalDays) : CanonicalDays[i] = d

\* C14: GetByPsikologID returns the slots in the order of the weekdays
\* (Senin first, Minggu last) and, within a day, by ascending start time.
C14_WeekdayOrder ==
  \A r \in Procs :
    (/\ pc[r] = "done" /\ req[r].op = "get" /\ ret[r] = Nil
     /\ \A i \in 1..Len(got[r].slots) : IsCanonicalDay(got[r].slots[i].Hari))
      => \A i, j \in 1..Len(got[r].slots) :
           i < j =>
             \/ WeekdayRank(got[r].slots[i].Hari) < WeekdayRank(got[r].slots[j].Hari)
             \/ /\ got[r].slots[i].Hari = got[r].slots[j].Hari
                /\ StartOf(got[r].slots[i]) <= StartOf(got[r].slots[j])

\* the call of p is SetAvailability with an empty slot list
ClearsSchedule(p) == req[p].op = "set" /\ Len(req[p].payload.Slots) = 0

\* C15: SetAvailability with an empty slot list is not refused: it calls
\* ReplaceAll once, with an empty list; the transaction inserts no row; when
\* it commits the owner has no row left, and a read made next returns an
\* empty list.
C15_EmptyListClearsSchedule ==
  \A p \in Procs :
    ClearsSchedule(p)
      => /\ replaceCalls[p] = 1
         /\ newSlots[p] = <<>>
         /\ ins[p] = {}
         /\ pc[p] = "deleted" => del[p] = IDs(pre[p])
         /\ pc[p] = "done" => (ret[p] = Nil \/ ret[p].HTTPStatus = 500)
         /\ (ReplaceAllSucceeded(p) /\ LastCall(p))
              => RowsOf(table, req[p].psikologID) = {}
         /\ \A r \in Procs :
              (/\ ReplaceAllSucceeded(p) /\ JustAfter(p, r)
               /\ pc[r] = "done" /\ req[r].op = "get" /\ ret[r] = Nil
               /\ req[r].psikologID = req[p].psikologID)
                => got[r].slots = <<>>

\* a schedule of three rows was cleared and the read after it came back empty
C15_Witness ==
  \E p, r \in Procs :
    /\ ClearsSchedule(p)
    /\ ReplaceAllSucceeded(p) /\ JustAfter(p, r)
    /\ Cardinality(pre[p]) = 3
    /\ pc[r] = "done" /\ req[r].op = "get" /\ ret[r] = Nil
    /\ req[r].psikologID = req[p].psikologID
    /\ got[r].slots = <<>>
    /\ RowsOf(table, req[p].psikologID) = {}

\* C19: GetAvailabilityByDay refuses a day that is not one of the seven
\* labels with the invalid-day error of status 400 and sends no query; for a
\* label it sends one query and returns the rows of that psikolog and that
\* day, all of them and no other, by ascending start time.
C19_ByDayChecksDayFirst ==
  \A p \in Procs :
    (pc[p] = "done" /\ req[p].op = "getday")
      => IF ~IsCanonicalDay(req[p].day)
         THEN /\ ret[p].HTTPStatus = 400
              /\ ret[p].Message = <<"Invalid day:", req[p].day>>
              /\ queries[p] = 0
              /\ got[p] = NoResult
         ELSE /\ queries[p] = 1
              /\ ret[p] = Nil \/ ret[p].HTTPStatus = 500
              /\ (ret[p] = Nil /\ LastCall(p))
                   => /\ Range(got[p].slots) =
                           {r \in table : r.PsikologID = req[p].psikologID
                                            /\ r.Hari = req[p].day}
                      /\ Len(got[p].slots) = Cardinality(Range(got[p].slots))
                      /\ \A i, j \in 1..Len(got[p].slots) :
                           i < j => StartOf(got[p].slots[i]) <= StartOf(got[p].slots[j])

\* a read for senin was refused, and the read for Senin made next returned
\* the two Senin rows out of three, the one that starts first in front
C19_Witness ==
  \E p, r \in Procs :
    /\ JustAfter(p, r) /\ LastCall(r)
    /\ pc[p] = "done" /\ req[p].op = "getday" /\ req[p].day = "senin"
    /\ ret[p].HTTPStatus = 400 /\ queries[p] = 0
    /\ pc[r] = "done" /\ req[r].op = "getday" /\ req[r].day = "Senin"
    /\ ret[r] = Nil
    /\ Cardinality(RowsOf(table, req[r].psikologID)) = 3
    /\ Len(got[r].slots) = 2
    /\ StartOf(got[r].slots[1]) < StartOf(got[r].slots[2])
    /\ got[r].slots[1].ID > got[r].slots[2].ID

\* C21: a ReplaceAll that fails leaves the owner's rows as they were before
\* it, so the attempt made next starts from the same rows, however many
\* attempts failed before; and when a later attempt with the same list
\* succeeds, the owner's schedule is that list.
C21_RetryAfterFailure ==
  /\ \A p \in Procs :
       (ReplaceAllFailed(p) /\ LastCall(p))
         => RowsOf(table, req[p].psikologID) = pre[p]
  /\ \A p, q \in Procs :
       (/\ JustAfter(p, q)
        /\ ReplaceAllFailed(p)
        /\ req[q].op = "set"
        /\ req[q].psikologID = req[p].psikologID
        /\ req[q].payload = req[p].payload)
         => /\ pre[q] = pre[p]
            /\ (ReplaceAllSucceeded(q) /\ LastCall(q))
                 => SameSchedule(RowsOf(table, req[q].psikologID), newSlots[q])

\* the commit of a replacement of three rows by two slots failed after its
\* insert, and the same call made again succeeded
C21_Witness ==
  \E p, q \in Procs :
    /\ JustAfter(p, q) /\ LastCall(q)
    /\ ReplaceAllFailed(p) /\ ret[p].Err = ErrCommit
    /\ ReplaceAllSucceeded(q)
    /\ req[q].psikologID = req[p].psikologID
    /\ req[q].payload = req[p].payload
    /\ Len(newSlots[p]) = 2
    /\ Cardinality(pre[p]) = 3
    /\ pre[q] = pre[p]
    /\ SameSchedule(RowsOf(table, req[q].psikologID), newSlots[q])

\* C22: every row in the store, and every row a transaction has inserted,
\* has HH:MM:SS times with start < end and end - start >= 30 minutes.
C22_PersistedSlotsWellTimed ==
  \A r \in table \cup UNION {ins[p] : p \in Procs} :
    /\ TimesAreHMS(r)
    /\ StartOf(r) < EndOf(r)
    /\ EndOf(r) - StartOf(r) >= 30 * 60

\* a list whose second slot lasts 20 minutes and a list whose slot ends
\* before it starts were refused, and the store holds rows
C22_Witness ==
  \E p, q \in Procs :
    /\ pc[p] = "done" /\ req[p].op = "set" /\ req[p].payload = PayloadShort
    /\ ret[p].Message = MsgMinDuration /\ replaceCalls[p] = 0
    /\ pc[q] = "done" /\ req[q].op = "set" /\ req[q].payload = PayloadBackwards
    /\ ret[q].Message = MsgStartBeforeEnd /\ replaceCalls[q] = 0
    /\ table # {}

(***************************************************************************)
(* What the properties say about the rows and the errors of a call.        *)
(***************************************************************************)
\* C16: every row ReplaceAll is given and every row it inserts carries the
\* psikologID of the call, and every row its transaction deletes is a row of
\* that psikolog, so the commit creates and changes rows of no one else.
C16_RowsCarryOwner ==
  \A p \in Procs :
    req[p].op = "set"
      => /\ \A i \in 1..Len(newSlots[p]) : newSlots[p][i].PsikologID = req[p].psikologID
         /\ \A r \in ins[p] : r.PsikologID = req[p].psikologID
         /\ \A r \in table : r.ID \in del[p] => r.PsikologID = req[p].psikologID

\* psikolog 2 has two rows inserted and not yet committed while psikolog 1
\* has its row in the store
C16_Witness ==
  \E p \in Procs :
    /\ pc[p] = "inserted"
    /\ req[p].psikologID = 2
    /\ Cardinality(ins[p]) = 2
    /\ \A r \in ins[p] : r.PsikologID = 2
    /\ RowsOf(table, 1) # {}

\* the errors ReplaceAll can return
RepoErrors == {ErrDelete, ErrCreate, ErrCommit}

CameBackWithError(p) == pc[p] = "done" /\ CalledReplaceAll(p) /\ ret[p] # Nil

LoginBegun(p) == ureq[p].op = "login" /\ upc[p] # "idle"

\* the error alone, with no user and no response
OnlyError(e) ==
  [user |-> [ID |-> 0, Username |-> <<>>, Email |-> <<>>, Password |-> <<>>, Role |-> ""],
   response |-> [Token |-> <<>>,
                 User |-> [ID |-> 0, Username |-> <<>>, Email |-> <<>>, Password |-> <<>>,
                           Role |-> ""]],
   err |-> e]

HashedPassword(hash) == hash[2]

\* C24: a Login for an email that no user has and a Login with a password
\* that is not the one of the stored hash return the same value, the error
\* ErrInvalidCredentials with no response; a response with a token comes back
\* only for a user of the store with that email whose hash is that of the
\* password supplied, and the token is that user's.
C24_LoginFailuresIndistinguishable ==
  \A p \in Procs :
    (upc[p] = "done" /\ ureq[p].op = "login")
      => /\ (\/ found[p].err = <<"user", "not", "found">>
             \/ /\ found[p].user.ID # 0
                /\ HashedPassword(found[p].user.Password) # ureq[p].Password)
              => ures[p] = OnlyError(<<"invalid", "credentials">>)
         /\ ures[p].response.Token # <<>>
              => /\ ures[p].err = <<>>
                 /\ \E u \in users :
                      /\ u.Email = ureq[p].Email
                      /\ HashedPassword(u.Password) = ureq[p].Password
                      /\ ures[p].response.Token = <<"user_id", u.ID, "role", u.Role>>
                      /\ ures[p].response.User.ID = u.ID

\* one Login for an unknown email and one with a wrong password came back
\* with the same value
C24_Witness ==
  \E p, q \in Procs :
    /\ upc[p] = "done" /\ ureq[p].op = "login"
    /\ upc[q] = "done" /\ ureq[q].op = "login"
    /\ found[p].err = ErrUserNotFound
    /\ found[q].user = SeededUser /\ ureq[q].Password = "password2"
    /\ ures[p] = ures[q]
    /\ ures[p].err = ErrInvalidCredentials

\* the call of p is a Register that has come back
Registered(p) == ureq[p].op = "register" /\ upc[p] = "done"

\* C25: no two rows of users have the same normalized email; a Register for
\* an email that GetByEmail finds returns ErrEmailAlreadyExists without
\* calling Create; and of two Register calls for the same email that both
\* went on to Create, at most one returns a user, and the other returns
\* ErrEmailAlreadyExists unless the database failed its Create for a reason
\* of its own.
C25_OneUserPerEmail ==
  /\ \A u, v \in users : NormalizeEmail(u.Email) = NormalizeEmail(v.Email) => u = v
  /\ \A p \in Procs :
       (ureq[p].op = "register" /\ upc[p] # "idle" /\ found[p].user.ID # 0)
         => /\ upc[p] = "done"
            /\ ures[p] = OnlyError(<<"email", "already", "exists">>)
            /\ createCalls[p] = 0
  /\ \A p, q \in Procs :
       (/\ p # q
        /\ Registered(p) /\ Registered(q)
        /\ ureq[p].Email = ureq[q].Email
        /\ createCalls[p] = 1 /\ createCalls[q] = 1)
         => /\ ures[p].user.ID = 0 \/ ures[q].user.ID = 0
            /\ (ures[p].user.ID # 0 /\ ures[q].err # <<"database", "error">>)
                 => ures[q] = OnlyError(<<"email", "already", "exists">>)

\* two Register calls with different names and the same email both found
\* no user and both called Create; one has its user, the other the error
C25_Witness ==
  \E p, q \in Procs :
    /\ Registered(p) /\ Registered(q)
    /\ ureq[p].Email = ureq[q].Email
    /\ newUser[p].Username # newUser[q].Username
    /\ found[p].err = ErrUserNotFound /\ found[q].err = ErrUserNotFound
    /\ createCalls[p] = 1 /\ createCalls[q] = 1
    /\ ures[p].user \in users
    /\ ures[q].err = ErrEmailAlreadyExists
    /\ Cardinality(users) = 1

(***************************************************************************)
(* What the properties say about requests made through the HTTP handler.   *)
(***************************************************************************)
\* the request of p carries a user id of type uint
Authenticated(p) == hreq[p].ctx.exists /\ hreq[p].ctx.type = "uint"

\* the handler of p never called the usecase
UsecaseNotCalled(p) == req[p].op = "none" /\ replaceCalls[p] = 0 /\ pc[p] = "refused"

\* C28: the usecase is called with the user id of the request's context and
\* with no other id, whatever the body holds, so the rows a request deletes
\* and inserts are rows of that user; a request with no user id, or with one
\* that is not a uint, is answered 401 and the usecase is not called.
C28_OwnerIsAuthenticatedUser ==
  \A p \in Procs :
    hreq[p].received
      => /\ ~Authenticated(p)
              => (resp[p].status = 401 /\ UsecaseNotCalled(p))
         /\ req[p].op = "set"
              => /\ Authenticated(p)
                 /\ req[p].psikologID = hreq[p].ctx.value
                 /\ \A i \in 1..Len(newSlots[p]) :
                      newSlots[p][i].PsikologID = hreq[p].ctx.value
                 /\ \A r \in ins[p] : r.PsikologID = hreq[p].ctx.value
                 /\ \A r \in table : r.ID \in del[p] => r.PsikologID = hreq[p].ctx.value
         /\ (resp[p].status = 200 /\ \A q \in Procs : q > p => ~hreq[q].received)
              => SameSchedule(RowsOf(table, hreq[p].ctx.value), hreq[p].body.Slots)

\* user 1 sent a list with psikolog_id 2 in the body: the list is now the
\* schedule of user 1 and the row of user 2 is as it was; and a request with
\* a user id of another type was answered 401
C28_Witness ==
  \E p, q \in Procs :
    /\ hreq[p].received /\ hreq[p].ctx = CtxFloat(1)
    /\ resp[p].status = 401 /\ UsecaseNotCalled(p)
    /\ hreq[q].received /\ hreq[q].ctx = CtxUint(1) /\ hreq[q].body.psikolog_id = 2
    /\ resp[q].status = 200
    /\ SameSchedule(RowsOf(table, 1), PayloadB.Slots)
    /\ RowsOf(table, 2) = RowsOf(SeededRowsBoth, 2)

\* the body of the request of p parses and has no slot: the key is absent or
\* the list is empty
NoSlotSent(p) ==
  /\ hreq[p].received /\ Authenticated(p)
  /\ hreq[p].body.wellFormed
  /\ ~hreq[p].body.hasSlots \/ Len(hreq[p].body.Slots) = 0

\* C29: an authenticated request whose slot list is empty or absent is
\* answered 400, validation failed, and the usecase is not called; the step
\* that receives it changes no row and no transaction; and no call the
\* handler makes of the usecase carries an empty list.
C29_EmptyListRefusedByHandler ==
  /\ [](\A p \in Procs :
          /\ NoSlotSent(p)
               => /\ resp[p].status = 400
                  /\ resp[p].message = <<"Validation failed">>
                  /\ UsecaseNotCalled(p)
          /\ (hreq[p].received /\ req[p].op = "set") => Len(req[p].payload.Slots) >= 1)
  /\ [][\A p \in Procs :
          (~hreq[p].received /\ NoSlotSent(p)')
            => (table' = table /\ snap' = snap /\ del' = del /\ ins' = ins)]_vars

\* a request with an empty list and one without the key slots were refused
\* and the two seeded rows are still there
C29_Witness ==
  \E p, q \in Procs :
    /\ NoSlotSent(p) /\ hreq[p].body.hasSlots /\ hreq[p].ctx.value = 1
    /\ NoSlotSent(q) /\ ~hreq[q].body.hasSlots
    /\ resp[p].status = 400 /\ resp[q].status = 400
    /\ table = SeededRowsBoth

(***************************************************************************)
(* What the properties say about the end of a replacement.                 *)
(***************************************************************************)
\* the DELETE of p is waiting for the transaction of q
WaitsFor(p, q) == pc[p] = "deleting" /\ p # q /\ InTx(q) /\ snap[p] \cap del[q] # {}

\* C30: over a fair store every call that entered ReplaceAll comes back from
\* it, its transaction committed or rolled back, whatever other calls for
\* the same psikolog run at the same time.
C30_ReplaceAllTerminates ==
  \A p \in Procs : InTx(p) ~> (pc[p] = "done" /\ ~InTx(p))

\* the DELETE of one call is waiting for the transaction of another call
\* for the same psikolog, which has deleted the rows and inserted its own
C30_Witness ==
  \E p, q \in Procs :
    /\ WaitsFor(p, q)
    /\ req[p].psikologID = req[q].psikologID
    /\ pc[q] = "inserted"
    /\ ~CanFinishDelete(p)

====
